---- MODULE Spec2Model ----
(***************************************************************************)
(* Model of the Zapgen API (src/main.py, src/schemas.py): the document     *)
(* store behind `db`, the pydantic request models, and the HTTP handlers   *)
(* create_* / list_* / send_message / ai_suggest / whatsapp_send.          *)
(*                                                                         *)
(* Python dicts are TLA+ functions whose DOMAIN is the set of keys, so a   *)
(* missing key is a key outside the DOMAIN.  Text that the code inspects   *)
(* character by character (message contents, ObjectId strings) is a        *)
(* sequence of one-character strings; text that is only compared for       *)
(* equality is a TLA+ string.                                              *)
(***************************************************************************)
EXTENDS Integers, Sequences, FiniteSets, TLC

VARIABLES
    db,           \* main.py:8   TRUE iff `db is not None` (connection made)
    store,        \* the collections of db: name -> sequence of documents
    next_oid,     \* the ObjectId the store hands to its next inserted document
    response,     \* the response of the most recent completed request
    inflight,     \* concurrent send_message requests: slot -> position
    created,      \* history: <<id, contact>> of each successful create_contact
    last_sent,    \* history: contact_id -> text of its latest successful send_message
    budget        \* number of requests the clients still send (lists are not counted)

vars == <<db, store, next_oid, response, inflight, created, last_sent, budget>>

-----------------------------------------------------------------------------
(* Bounds of the model *)

\* create requests (POST) the clients send to a server that starts empty
MaxNew == 2
\* create requests (POST) the clients send to a server that starts full
MaxOver == 1
\* longest history given to ai_suggest
MaxHist == 2
\* send_message requests the server handles at the same time
MaxConcurrent == 2

-----------------------------------------------------------------------------
(* Python values *)

None == "<None>"

\* dict.get(key, default)
Get(d, k, default) == IF k \in DOMAIN d THEN d[k] ELSE default

Collections == {"contact", "template", "campaign", "flow", "message", "chatsession"}

HexDigits == <<"0", "1", "2", "3", "4", "5", "6", "7",
               "8", "9", "a", "b", "c", "d", "e", "f">>

\* str(ObjectId): 24 hexadecimal characters.  The 9 leading bytes (timestamp,
\* process) are the same for every document here; the 3-byte counter, six
\* characters, tells the documents apart.
OidPrefix == [i \in 1..18 |-> "6"]
OidPowers == <<1048576, 65536, 4096, 256, 16, 1>>
ObjectIdStr(n) ==
    OidPrefix \o [i \in 1..6 |-> HexDigits[((n \div OidPowers[i]) % 16) + 1]]

-----------------------------------------------------------------------------
(* Schema layer: src/schemas.py.  Each model takes the request body (a dict) *)
(* and yields [ok |-> TRUE, value |-> the validated entity with defaults]    *)
(* or [ok |-> FALSE] for a pydantic ValidationError.                         *)

Invalid == [ok |-> FALSE]
Valid(v) == [ok |-> TRUE, value |-> v]

Contact(body) ==
    IF {"name", "phone"} \subseteq DOMAIN body
    THEN Valid([name  |-> body.name,
                phone |-> body.phone,
                tags  |-> Get(body, "tags", <<>>),
                notes |-> Get(body, "notes", None)])
    ELSE Invalid

\* mutant: the pattern is not anchored to the two words
DirectionPattern_any(d) == TRUE

\* Field(..., pattern="^(inbound|outbound)$")
DirectionPattern(d) == d \in {"inbound", "outbound"}

Message(body) ==
    IF /\ {"contact_id", "direction", "text"} \subseteq DOMAIN body
       /\ DirectionPattern(body.direction)
    THEN Valid([contact_id  |-> body.contact_id,
                direction   |-> body.direction,
                text        |-> body.text,
                campaign_id |-> Get(body, "campaign_id", None)])
    ELSE Invalid

Campaign(body) ==
    IF {"name", "message"} \subseteq DOMAIN body
    THEN Valid([name         |-> body.name,
                message      |-> body.message,
                status       |-> Get(body, "status", "draft"),
                segment_tags |-> Get(body, "segment_tags", <<>>)])
    ELSE Invalid

Template(body) ==
    IF {"name", "body"} \subseteq DOMAIN body
    THEN Valid([name      |-> body.name,
                language  |-> Get(body, "language", "en"),
                body      |-> body.body,
                variables |-> Get(body, "variables", <<>>)])
    ELSE Invalid

Flow(body) ==
    IF "name" \in DOMAIN body
    THEN Valid([name        |-> body.name,
                definition  |-> Get(body, "definition", <<>>),
                description |-> Get(body, "description", None)])
    ELSE Invalid

-----------------------------------------------------------------------------
(* Document store adapter: `from database import db, create_document,       *)
(* get_documents` (main.py:8).                                              *)

\* fields that hold lists: a filter value matches a list field when it is
\* equal to one of its elements
ArrayFields == {"tags", "segment_tags", "variables"}

Matches(doc, q) ==
    \A k \in DOMAIN q :
        /\ k \in DOMAIN doc
        /\ IF k \in ArrayFields
           THEN \E i \in DOMAIN doc[k] : doc[k][i] = q[k]
           ELSE doc[k] = q[k]

RECURSIVE Filter(_, _)
\* the documents of `docs` matching q, in store order (by halves); the empty
\* filter matches every document
Filter(docs, q) ==
    IF docs = <<>> \/ DOMAIN q = {} THEN docs
    ELSE IF Len(docs) = 1
         THEN IF Matches(docs[1], q) THEN docs ELSE <<>>
         ELSE LET half == Len(docs) \div 2
              IN  Filter(SubSeq(docs, 1, half), q)
                      \o Filter(SubSeq(docs, half + 1, Len(docs)), q)

Take(docs, n) == IF Len(docs) <= n THEN docs ELSE SubSeq(docs, 1, n)

\* insert(collection, document) -> identifier; fails when db is None
create_document(st, oid, up, name, data) ==
    IF ~up
    THEN [ok |-> FALSE, store |-> st, oid |-> oid, id |-> <<>>]
    ELSE [ok    |-> TRUE,
          store |-> [st EXCEPT ![name] = Append(@, [_id |-> oid] @@ data)],
          oid   |-> oid + 1,
          id    |-> ObjectIdStr(oid)]

\* find(collection, filter, limit) -> up to `limit` matching documents
get_documents(st, up, name, q, limit) ==
    IF ~up
    THEN [ok |-> FALSE, docs |-> <<>>]
    ELSE [ok |-> TRUE, docs |-> Take(Filter(st[name], q), limit)]

\* Collection.update_one(filter, {"$set": set}, upsert=True) on `name`:
\* the first matching document gets the fields of `set`; when none matches a
\* document made of the filter's and the set's fields is inserted.
update_one(st, oid, name, q, set) ==
    LET docs == st[name]
        hits == {i \in DOMAIN docs : Matches(docs[i], q)}
    IN  IF hits # {}
        THEN LET i == CHOOSE j \in hits : \A k \in hits : j <= k
             IN  [store |-> [st EXCEPT ![name][i] = set @@ docs[i]],
                  oid   |-> oid]
        ELSE [store |-> [st EXCEPT ![name] = Append(@, [_id |-> oid] @@ set @@ q)],
              oid   |-> oid + 1]

-----------------------------------------------------------------------------
(* API layer: src/main.py.  A handler yields the store it leaves behind,    *)
(* the next ObjectId and the HTTP response [status, body].                  *)

Outcome(st, oid, status, body) ==
    [store |-> st, oid |-> oid, status |-> status, body |-> body]

\* a pydantic ValidationError of the request body: 422, handler not entered
RequestInvalid(st, oid) == Outcome(st, oid, 422, "validation error")
\* an exception escaping the handler: 500
ServerError(st, oid) == Outcome(st, oid, 500, "internal server error")

\* d["id"] = str(d.get("_id")); d.pop("_id", None)
Reshape(d) ==
    [k \in (DOMAIN d \ {"_id"}) \cup {"id"} |->
        IF k = "id" THEN ObjectIdStr(d._id) ELSE d[k]]

ReshapeAll(docs) == [i \in DOMAIN docs |-> Reshape(docs[i])]

\* the shared body of the create_* handlers
Create(st, oid, up, name, model) ==
    IF ~model.ok THEN RequestInvalid(st, oid)
    ELSE LET r == create_document(st, oid, up, name, model.value)
         IN  IF r.ok THEN Outcome(r.store, r.oid, 200, [id |-> r.id])
             ELSE ServerError(st, oid)

\* the shared body of the list_* handlers
List(st, oid, up, name, q, limit) ==
    LET r == get_documents(st, up, name, q, limit)
    IN  IF r.ok THEN Outcome(st, oid, 200, ReshapeAll(r.docs))
        ELSE ServerError(st, oid)

ContactLimit == 100
TemplateLimit == 100
CampaignLimit == 100
FlowLimit == 100
MessageLimit == 200

\* mutant: the tags of the payload are not stored
create_contact_drops_tags(st, oid, up, body) ==
    LET c == Contact(body)
    IN  Create(st, oid, up, "contact",
               IF c.ok THEN Valid([c.value EXCEPT !.tags = <<>>]) ELSE c)

create_contact(st, oid, up, body) == Create(st, oid, up, "contact", Contact(body))

\* mutant: the tag filter is never applied
list_contacts_unfiltered(st, oid, up, tag) ==
    List(st, oid, up, "contact", <<>>, ContactLimit)

\* `if tag:` an absent (None) or empty tag leaves the filter empty
list_contacts(st, oid, up, tag) ==
    LET q == IF tag # None /\ tag # "" THEN [tags |-> tag] ELSE <<>>
    IN  List(st, oid, up, "contact", q, ContactLimit)

create_template(st, oid, up, body) == Create(st, oid, up, "template", Template(body))
list_templates(st, oid, up) == List(st, oid, up, "template", <<>>, TemplateLimit)

create_campaign(st, oid, up, body) == Create(st, oid, up, "campaign", Campaign(body))
list_campaigns(st, oid, up) == List(st, oid, up, "campaign", <<>>, CampaignLimit)

create_flow(st, oid, up, body) == Create(st, oid, up, "flow", Flow(body))
list_flows(st, oid, up) == List(st, oid, up, "flow", <<>>, FlowLimit)

\* send_message, first store operation (main.py:127)
send_message_insert(st, oid, up, body) == Create(st, oid, up, "message", Message(body))

\* mutant: a ChatSession is inserted for every message instead of upserted
send_message_upsert_inserts(st, oid, msg, new_id) ==
    Outcome([st EXCEPT !["chatsession"] =
                Append(@, [_id |-> oid, contact_id |-> msg.contact_id,
                           last_message |-> msg.text, updated_at |-> msg.text])],
            oid + 1, 200, [id |-> new_id])

\* mutant: last_message is written only when the ChatSession is first inserted
send_message_upsert_on_insert(st, oid, msg, new_id) ==
    IF \E i \in DOMAIN st["chatsession"] :
           st["chatsession"][i].contact_id = msg.contact_id
    THEN Outcome(st, oid, 200, [id |-> new_id])
    ELSE LET r == update_one(st, oid, "chatsession",
                             [contact_id |-> msg.contact_id],
                             [contact_id   |-> msg.contact_id,
                              last_message |-> msg.text,
                              updated_at   |-> msg.text])
         IN  Outcome(r.store, r.oid, 200, [id |-> new_id])

\* send_message, second store operation and return (main.py:129-134)
send_message_upsert(st, oid, msg, new_id) ==
    LET r == update_one(st, oid, "chatsession",
                        [contact_id |-> msg.contact_id],
                        [contact_id   |-> msg.contact_id,
                         last_message |-> msg.text,
                         updated_at   |-> msg.text])
    IN  Outcome(r.store, r.oid, 200, [id |-> new_id])

\* send_message served without another request in between
send_message(st, oid, up, body) ==
    LET a == send_message_insert(st, oid, up, body)
    IN  IF a.status # 200 THEN a
        ELSE send_message_upsert(a.store, a.oid, Message(body).value, a.body.id)

\* mutant: the limit is left out of the find
list_messages_uncapped(st, oid, up, contact_id) ==
    LET q == IF contact_id # None /\ contact_id # ""
             THEN [contact_id |-> contact_id] ELSE <<>>
    IN  List(st, oid, up, "message", q, Len(st["message"]))

list_messages(st, oid, up, contact_id) ==
    LET q == IF contact_id # None /\ contact_id # ""
             THEN [contact_id |-> contact_id] ELSE <<>>
    IN  List(st, oid, up, "message", q, MessageLimit)

\* WhatsAppSend: `to` and `text` are required
WhatsAppSend(body) ==
    IF {"to", "text"} \subseteq DOMAIN body
    THEN Valid([to |-> body.to, text |-> body.text])
    ELSE Invalid

\* mutant: a failed store write is swallowed and "queued" reported anyway
whatsapp_send_swallows(st, oid, up, body) ==
    LET payload == WhatsAppSend(body)
    IN  IF ~payload.ok THEN RequestInvalid(st, oid)
        ELSE LET msg == Message([contact_id |-> payload.value.to,
                                 direction  |-> "outbound",
                                 text       |-> payload.value.text])
                 r   == create_document(st, oid, up, "message", msg.value)
             IN  Outcome(r.store, r.oid, 200, [status |-> "queued"])

\* mutant: the stored message replaces the latest one of the collection
whatsapp_send_overwrites(st, oid, up, body) ==
    LET payload == WhatsAppSend(body)
    IN  IF ~payload.ok THEN RequestInvalid(st, oid)
        ELSE LET msg == Message([contact_id |-> payload.value.to,
                                 direction  |-> "outbound",
                                 text       |-> payload.value.text])
                 n   == Len(st["message"])
                 cut == [st EXCEPT !["message"] = SubSeq(@, 1, IF n = 0 THEN 0 ELSE n - 1)]
                 r   == create_document(cut, oid, up, "message", msg.value)
             IN  IF r.ok THEN Outcome(r.store, r.oid, 200, [status |-> "queued"])
                 ELSE ServerError(st, oid)

whatsapp_send(st, oid, up, body) ==
    LET payload == WhatsAppSend(body)
    IN  IF ~payload.ok THEN RequestInvalid(st, oid)
        ELSE LET msg == Message([contact_id |-> payload.value.to,
                                 direction  |-> "outbound",
                                 text       |-> payload.value.text])
                 r   == create_document(st, oid, up, "message", msg.value)
             IN  IF r.ok THEN Outcome(r.store, r.oid, 200, [status |-> "queued"])
                 ELSE ServerError(st, oid)


-----------------------------------------------------------------------------
(* Suggestion heuristic: ai_suggest (main.py:150-168) *)

UpperCase == <<"A", "B", "C", "D", "E", "F", "G", "H", "I", "J", "K", "L", "M",
               "N", "O", "P", "Q", "R", "S", "T", "U", "V", "W", "X", "Y", "Z">>
LowerCase == <<"a", "b", "c", "d", "e", "f", "g", "h", "i", "j", "k", "l", "m",
               "n", "o", "p", "q", "r", "s", "t", "u", "v", "w", "x", "y", "z">>

\* str.lower(), character by character
LowerChar(c) ==
    IF \E i \in DOMAIN UpperCase : UpperCase[i] = c
    THEN LowerCase[CHOOSE i \in DOMAIN UpperCase : UpperCase[i] = c]
    ELSE c

Lower(s) == [i \in DOMAIN s |-> LowerChar(s[i])]

\* `word in s`: word occurs in s as a contiguous run of characters
Contains(s, word) ==
    \E i \in 0..(Len(s) - Len(word)) : SubSeq(s, i + 1, i + Len(word)) = word

PriceWords == {<<"p", "r", "i", "c", "e">>, <<"c", "o", "s", "t">>}
DemoWords == {<<"t", "r", "i", "a", "l">>, <<"d", "e", "m", "o">>}

GenericSuggestion == "Thanks for reaching out! Could you please share more details?"
PricingSuggestion == "Our pricing starts at $49/month. Would you like a quick demo?"
DemoSuggestion == "Happy to set up a demo. What time works best for you?"

\* AIRequest: `history` is required, `instruction` optional
AIRequest(body) ==
    IF "history" \in DOMAIN body
    THEN Valid([history |-> body.history, instruction |-> Get(body, "instruction", None)])
    ELSE Invalid

RECURSIVE LastUser(_)
\* for m in reversed(history): if m.get("role") == "user": m.get("content", "")
LastUser(history) ==
    IF history = <<>> THEN <<>>
    ELSE LET m == history[Len(history)]
         IN  IF Get(m, "role", None) = "user"
             THEN Get(m, "content", <<>>)
             ELSE LastUser(SubSeq(history, 1, Len(history) - 1))

\* mutant: the trial/demo rule is tried before the price/cost rule
Suggest_demo_first(last_user) ==
    IF \E word \in DemoWords : Contains(Lower(last_user), word)
    THEN DemoSuggestion
    ELSE IF \E word \in PriceWords : Contains(Lower(last_user), word)
         THEN PricingSuggestion
         ELSE GenericSuggestion

Suggest(last_user) ==
    IF \E word \in PriceWords : Contains(Lower(last_user), word)
    THEN PricingSuggestion
    ELSE IF \E word \in DemoWords : Contains(Lower(last_user), word)
         THEN DemoSuggestion
         ELSE GenericSuggestion

ai_suggest(st, oid, body) ==
    LET req == AIRequest(body)
    IN  IF ~req.ok THEN RequestInvalid(st, oid)
        ELSE Outcome(st, oid, 200, [suggestion |-> Suggest(LastUser(req.value.history))])

-----------------------------------------------------------------------------
(* Requests the clients send *)

ContactIds == {"c1", "c2"}

ContactBodies ==
    { [name |-> "ann", phone |-> "+15550001"],
      [name |-> "bob", phone |-> "+15550002", tags |-> <<"vip">>],
      [name |-> "cyd", phone |-> "+15550003", tags |-> <<"new", "vip">>,
       notes |-> "met at expo"],
      [name |-> "dan"] }

Tags == {None, "", "vip", "new"}

TemplateBodies ==
    { [name |-> "welcome", body |-> "hi {{1}}", variables |-> <<"1">>],
      [name |-> "nobody"] }

CampaignBodies ==
    { [name |-> "launch", message |-> "we are live", segment_tags |-> <<"vip">>] }

FlowBodies ==
    { [name |-> "onboarding", definition |-> [nodes |-> <<"start">>, edges |-> <<>>]] }

SendBodies ==
    { [contact_id |-> "c1", direction |-> "outbound", text |-> "hello"],
      [contact_id |-> "c1", direction |-> "inbound", text |-> "bye"],
      [contact_id |-> "c2", direction |-> "outbound", text |-> "bye"],
      [contact_id |-> "c1", direction |-> "sideways", text |-> "bye"],
      [contact_id |-> "c2", direction |-> "Outbound", text |-> "hello"],
      [contact_id |-> "c1", text |-> "hello"] }

MessageFilters == {None, "c1", "c2"}

WhatsAppBodies ==
    { [to |-> "c1", text |-> "bye"],
      [to |-> "c2", text |-> "hello"],
      [to |-> "c1"] }

Contents ==
    { <<"p", "r", "i", "c", "e">>,
      <<"t", "h", "e", " ", "C", "o", "s", "t", "?">>,
      <<"a", " ", "d", "e", "m", "o">>,
      <<"T", "R", "I", "A", "L">>,
      <<"t", "r", "i", "a", "l", " ", "p", "r", "i", "c", "e">>,
      <<"h", "e", "l", "l", "o">>,
      <<"p", "r", "i", "c">> }

HistoryEntries ==
    [role : {"user", "assistant"}, content : Contents]
        \cup { [content |-> <<"p", "r", "i", "c", "e">>], [role |-> "user"] }

RECURSIVE Histories(_)
Histories(n) ==
    IF n = 0 THEN {<<>>}
    ELSE LET shorter == Histories(n - 1)
         IN  shorter \cup {Append(h, m) : h \in {x \in shorter : Len(x) = n - 1},
                                          m \in HistoryEntries}

AIBodies ==
    {[history |-> h] : h \in Histories(MaxHist)}
        \cup { [history |-> <<>>, instruction |-> "be brief"],
               [instruction |-> "be brief"] }


-----------------------------------------------------------------------------
(* States the server can be in when a behaviour starts *)

EmptyStore == [c \in Collections |-> <<>>]

NoneSent == [c \in ContactIds |-> None]

\* A store that earlier requests have filled to `short` documents below the
\* list caps: ContactLimit - short create_contact calls, then as many
\* create_template, create_campaign and create_flow calls as their caps allow,
\* then MessageLimit - short send_message calls of "c1", each one inserting
\* its document with the next ObjectId (the first send_message also inserted
\* the ChatSession of "c1").
FilledStore(short) ==
    LET nc == ContactLimit - short
        nt == TemplateLimit - short
        np == CampaignLimit - short
        nf == FlowLimit - short
        nm == MessageLimit - short
    IN  [contact  |-> [i \in 1..nc |->
                         [_id |-> i, name |-> "ann", phone |-> "+15550001",
                          tags |-> IF i % 2 = 0 THEN <<"vip">> ELSE <<>>,
                          notes |-> None]],
         template |-> [i \in 1..nt |->
                         [_id |-> nc + i, name |-> "welcome", language |-> "en",
                          body |-> "hi {{1}}", variables |-> <<"1">>]],
         campaign |-> [i \in 1..np |->
                         [_id |-> nc + nt + i, name |-> "launch",
                          message |-> "we are live", status |-> "draft",
                          segment_tags |-> <<"vip">>]],
         flow     |-> [i \in 1..nf |->
                         [_id |-> nc + nt + np + i, name |-> "onboarding",
                          definition |-> [nodes |-> <<"start">>, edges |-> <<>>],
                          description |-> None]],
         message  |-> [i \in 1..nm |->
                         [_id |-> nc + nt + np + nf + (IF i = 1 THEN 1 ELSE i + 1),
                          contact_id |-> "c1", direction |-> "outbound",
                          text |-> "hello", campaign_id |-> None]],
         chatsession |-> << [_id |-> nc + nt + np + nf + 2,
                             contact_id |-> "c1", last_message |-> "hello",
                             updated_at |-> "hello"] >>]

FilledStoreNextOid(short) ==
    ContactLimit + TemplateLimit + CampaignLimit + FlowLimit + MessageLimit
        - (5 * short) + 2

NoResponse == [op |-> "none", req |-> None, status |-> 0, body |-> None]

Idle == [pc |-> "idle"]

Slots == 1..MaxConcurrent

\* the server right after start: connected or not, nothing stored yet
Init ==
    /\ db \in BOOLEAN
    /\ store = EmptyStore
    /\ next_oid = 1
    /\ last_sent = NoneSent
    /\ response = NoResponse
    /\ inflight = [s \in Slots |-> Idle]
    /\ created = <<>>
    /\ budget = MaxNew

\* the server after the requests that filled the store to the list caps, or
\* to one document below them
InitFull ==
    /\ db \in BOOLEAN
    /\ \E short \in {0, 1} :
          /\ store = IF db THEN FilledStore(short) ELSE EmptyStore
          /\ next_oid = IF db THEN FilledStoreNextOid(short) ELSE 1
    /\ last_sent = IF db THEN [NoneSent EXCEPT !["c1"] = "hello"] ELSE NoneSent
    /\ response = NoResponse
    /\ inflight = [s \in Slots |-> Idle]
    /\ created = <<>>
    /\ budget = MaxOver

-----------------------------------------------------------------------------
(* Requests served one at a time: each action is one whole handler *)

\* the response of handler `op` to request `req`, and the store it leaves
Serve(op, req, o) ==
    /\ store' = o.store
    /\ next_oid' = o.oid
    /\ response' = [op |-> op, req |-> req, status |-> o.status, body |-> o.body]
    /\ UNCHANGED <<db, inflight>>

CreateContact ==
    \E body \in ContactBodies :
        LET o == create_contact(store, next_oid, db, body)
        IN  /\ budget > 0
            /\ Serve("create_contact", body, o)
            /\ created' = IF o.status = 200
                          THEN Append(created, [id |-> o.body.id,
                                                contact |-> Contact(body).value])
                          ELSE created
            /\ budget' = budget - 1
            /\ UNCHANGED last_sent

ListContacts ==
    \E tag \in Tags :
        /\ Serve("list_contacts", tag, list_contacts(store, next_oid, db, tag))
        /\ UNCHANGED <<created, last_sent, budget>>

CreateTemplate ==
    \E body \in TemplateBodies :
        /\ budget > 0
        /\ Serve("create_template", body, create_template(store, next_oid, db, body))
        /\ budget' = budget - 1
        /\ UNCHANGED <<created, last_sent>>

ListTemplates ==
    /\ Serve("list_templates", None, list_templates(store, next_oid, db))
    /\ UNCHANGED <<created, last_sent, budget>>

CreateCampaign ==
    \E body \in CampaignBodies :
        /\ budget > 0
        /\ Serve("create_campaign", body, create_campaign(store, next_oid, db, body))
        /\ budget' = budget - 1
        /\ UNCHANGED <<created, last_sent>>

ListCampaigns ==
    /\ Serve("list_campaigns", None, list_campaigns(store, next_oid, db))
    /\ UNCHANGED <<created, last_sent, budget>>

CreateFlow ==
    \E body \in FlowBodies :
        /\ budget > 0
        /\ Serve("create_flow", body, create_flow(store, next_oid, db, body))
        /\ budget' = budget - 1
        /\ UNCHANGED <<created, last_sent>>

ListFlows ==
    /\ Serve("list_flows", None, list_flows(store, next_oid, db))
    /\ UNCHANGED <<created, last_sent, budget>>

SendMessage ==
    \E body \in SendBodies :
        LET o == send_message(store, next_oid, db, body)
        IN  /\ budget > 0
            /\ Serve("send_message", body, o)
            /\ last_sent' = IF o.status = 200
                            THEN [last_sent EXCEPT ![body.contact_id] = body.text]
                            ELSE last_sent
            /\ budget' = budget - 1
            /\ UNCHANGED created

ListMessages ==
    \E contact_id \in MessageFilters :
        /\ Serve("list_messages", contact_id,
                 list_messages(store, next_oid, db, contact_id))
        /\ UNCHANGED <<created, last_sent, budget>>

SendWhatsapp ==
    \E body \in WhatsAppBodies :
        /\ budget > 0
        /\ Serve("whatsapp_send", body, whatsapp_send(store, next_oid, db, body))
        /\ budget' = budget - 1
        /\ UNCHANGED <<created, last_sent>>

Next ==
    \/ CreateContact
    \/ ListContacts
    \/ CreateTemplate
    \/ ListTemplates
    \/ CreateCampaign
    \/ ListCampaigns
    \/ CreateFlow
    \/ ListFlows
    \/ SendMessage
    \/ ListMessages
    \/ SendWhatsapp

Spec == Init /\ [][Next]_vars

SpecFull == InitFull /\ [][Next]_vars


-----------------------------------------------------------------------------
(* The suggestion endpoint on its own.  It reads and writes no state, so a *)
(* behaviour is one request drawn from AIBodies and its response.           *)

InitAI ==
    /\ db \in BOOLEAN
    /\ store = EmptyStore
    /\ next_oid = 1
    /\ last_sent = NoneSent
    /\ response = NoResponse
    /\ inflight = [s \in Slots |-> Idle]
    /\ created = <<>>
    /\ budget = 1

AiSuggest ==
    \E body \in AIBodies :
        /\ budget > 0
        /\ Serve("ai_suggest", body, ai_suggest(store, next_oid, body))
        /\ budget' = budget - 1
        /\ UNCHANGED <<created, last_sent>>

NextAI == AiSuggest

SpecAI == InitAI /\ [][NextAI]_vars

-----------------------------------------------------------------------------
(* send_message requests served at the same time.  The handler makes two    *)
(* store calls, create_document and then update_one, with nothing holding   *)
(* other requests back between them: each call is one step of its request.  *)

\* the store after one earlier send_message, served alone
EarlierSend ==
    send_message(EmptyStore, 1, TRUE,
                 [contact_id |-> "c1", direction |-> "inbound", text |-> "hi"])

InitConc ==
    /\ db \in BOOLEAN
    /\ \E earlier \in BOOLEAN :
          /\ store = IF db /\ earlier THEN EarlierSend.store ELSE EmptyStore
          /\ next_oid = IF db /\ earlier THEN EarlierSend.oid ELSE 1
          /\ last_sent = IF db /\ earlier THEN [NoneSent EXCEPT !["c1"] = "hi"]
                         ELSE NoneSent
    /\ response = NoResponse
    /\ inflight = [s \in Slots |-> Idle]
    /\ created = <<>>
    /\ budget = 0

\* request validation and create_document("message", msg)
SendMessageInsert(s) ==
    \E body \in SendBodies :
        LET o == send_message_insert(store, next_oid, db, body)
        IN  /\ inflight[s].pc = "idle"
            /\ store' = o.store
            /\ next_oid' = o.oid
            /\ IF o.status = 200
               THEN /\ inflight' = [inflight EXCEPT ![s] =
                           [pc |-> "inserted", body |-> body, new_id |-> o.body.id]]
                    /\ UNCHANGED response
               ELSE /\ inflight' = [inflight EXCEPT ![s] =
                           [pc |-> "done", body |-> body, status |-> o.status]]
                    /\ response' = [op |-> "send_message", req |-> body,
                                    status |-> o.status, body |-> o.body]
            /\ UNCHANGED <<db, created, last_sent, budget>>

\* db["chatsession"].update_one(..., upsert=True) and the return
SendMessageUpsert(s) ==
    /\ inflight[s].pc = "inserted"
    /\ LET body == inflight[s].body
           o == send_message_upsert(store, next_oid, Message(body).value,
                                    inflight[s].new_id)
       IN  /\ store' = o.store
           /\ next_oid' = o.oid
           /\ response' = [op |-> "send_message", req |-> body,
                           status |-> o.status, body |-> o.body]
           /\ inflight' = [inflight EXCEPT ![s] =
                  [pc |-> "done", body |-> body, status |-> o.status,
                   new_id |-> inflight[s].new_id]]
           /\ last_sent' = [last_sent EXCEPT ![body.contact_id] = body.text]
    /\ UNCHANGED <<db, created, budget>>

NextConc == \E s \in Slots : SendMessageInsert(s) \/ SendMessageUpsert(s)

SpecConc == InitConc /\ [][NextConc]_vars

-----------------------------------------------------------------------------
(* Claims *)

\* what a listed document says about a contact: every field but its id
SameContact(d, c) ==
    /\ d.name = c.name
    /\ d.phone = c.phone
    /\ d.tags = c.tags
    /\ d.notes = c.notes

Listed(docs, entry) ==
    \E j \in DOMAIN docs : docs[j].id = entry.id /\ SameContact(docs[j], entry.contact)

\* C1 as stated (read with the store connected): every create_contact with a
\* valid Contact payload returns a non-empty identifier, and every later
\* list_contacts without a tag includes a document with that identifier and
\* the submitted name, phone, tags and notes.
C1_AsStated ==
    db =>
        /\ (response.op = "create_contact" /\ Contact(response.req).ok)
              => (response.status = 200 /\ response.body.id # <<>>)
        /\ (response.op = "list_contacts" /\ response.req = None)
              => \A i \in DOMAIN created :
                    response.status = 200 /\ Listed(response.body, created[i])

\* C1 amended: with the store connected, every create_contact with a valid
\* Contact payload returns a non-empty identifier (with the store not
\* connected it fails with a server error and returns none); and every later
\* list_contacts without a tag, served while the contact collection holds at
\* most 100 documents, includes a document with that identifier and the
\* submitted name, phone, tags and notes.
C1_CreateThenList ==
    /\ (response.op = "create_contact" /\ Contact(response.req).ok)
          => IF db THEN response.status = 200 /\ response.body.id # <<>>
             ELSE response.status = 500
    /\ (response.op = "list_contacts" /\ response.req = None
            /\ Len(store["contact"]) <= ContactLimit)
          => \A i \in DOMAIN created :
                response.status = 200 /\ Listed(response.body, created[i])

\* a contact was created and a later untagged list shows it
C1_Witness ==
    /\ response.op = "list_contacts"
    /\ response.req = None
    /\ created # <<>>
    /\ Len(store["contact"]) = ContactLimit
    /\ Listed(response.body, created[Len(created)])

\* C8: list_contacts, list_templates, list_campaigns and list_flows return at
\* most 100 documents and list_messages at most 200, whatever the store holds.
C8_ListCaps ==
    response.status = 200 =>
        /\ response.op \in {"list_contacts", "list_templates",
                            "list_campaigns", "list_flows"}
              => Len(response.body) <= 100
        /\ response.op = "list_messages" => Len(response.body) <= 200

\* a list served from a collection that holds more documents than the cap
C8_Witness ==
    /\ response.op = "list_messages"
    /\ response.status = 200
    /\ response.req = None
    /\ Len(store["message"]) > 200
    /\ Len(response.body) = 200


\* C2: a send_message whose direction is neither "inbound" nor "outbound"
\* (or is missing) is answered with a client validation error and changes
\* nothing in the store: no message inserted, no ChatSession touched.
C2_InvalidDirectionRejected ==
    [][ (/\ response'.op = "send_message"
         /\ Get(response'.req, "direction", None) \notin {"inbound", "outbound"})
            => (response'.status = 422 /\ store' = store /\ next_oid' = next_oid)
      ]_vars

\* an invalid direction was rejected while the store held documents
C2_Witness ==
    /\ response.op = "send_message"
    /\ response.status = 422
    /\ "direction" \in DOMAIN response.req
    /\ store["message"] # <<>>
    /\ store["chatsession"] # <<>>

SessionsOf(c) ==
    {i \in DOMAIN store["chatsession"] : store["chatsession"][i].contact_id = c}

\* C3: after any sequence of send_message calls served one after another,
\* each contact_id of a successful call has exactly one ChatSession, whose
\* last_message is the text of the latest successful call for it.
C3_LastMessage ==
    \A c \in ContactIds :
        last_sent[c] # None =>
            /\ Cardinality(SessionsOf(c)) = 1
            /\ \A i \in SessionsOf(c) :
                  store["chatsession"][i].last_message = last_sent[c]

\* "c1" was sent "hello" and then "bye": its ChatSession was updated
C3_Witness ==
    /\ last_sent["c1"] = "bye"
    /\ \E i, j \in DOMAIN store["message"] :
          /\ i < j
          /\ store["message"][i].contact_id = "c1"
          /\ store["message"][i].text = "hello"
          /\ store["message"][j].contact_id = "c1"
          /\ store["message"][j].direction = "inbound"
    /\ \E i \in SessionsOf("c1") : store["chatsession"][i].last_message = "bye"

\* C4 as stated: with no request in progress, every contact_id that has a
\* stored message also has a ChatSession.
C4_AsStated ==
    \A i \in DOMAIN store["message"] :
        SessionsOf(store["message"][i].contact_id) # {}

HasTag(d, t) == \E k \in DOMAIN d.tags : d.tags[k] = t

\* C6 as stated: for every tag value given to list_contacts, every contact
\* returned has that tag as an element of its tags.
C6_AsStated ==
    (response.op = "list_contacts" /\ response.status = 200 /\ response.req # None)
        => \A j \in DOMAIN response.body : HasTag(response.body[j], response.req)

\* C6 amended: for every non-empty tag value given to list_contacts, every
\* contact returned has that tag as an element of its tags (an empty tag
\* value is treated as no filter and returns contacts whatever their tags).
C6_TagFilter ==
    (response.op = "list_contacts" /\ response.status = 200
        /\ response.req # None /\ response.req # "")
        => \A j \in DOMAIN response.body : HasTag(response.body[j], response.req)

\* a tagged list returned a contact and left out one that lacks the tag
C6_Witness ==
    /\ response.op = "list_contacts"
    /\ response.req = "new"
    /\ Len(response.body) = 1
    /\ Len(store["contact"]) = 2

IsPrefix(a, b) == Len(a) <= Len(b) /\ SubSeq(b, 1, Len(a)) = a

\* C9: the contact, template, campaign, flow and message collections are
\* append-only: no step modifies or removes a stored document of theirs.
C9_AppendOnly ==
    [][ \A name \in Collections \ {"chatsession"} :
            IsPrefix(store[name], store'[name]) ]_vars

\* documents were appended after others, and a ChatSession created by one
\* message ("hello") was later changed by another ("bye")
C9_Witness ==
    /\ Len(store["message"]) = 2
    /\ \E i \in DOMAIN store["chatsession"] :
          /\ store["chatsession"][i].last_message = "bye"
          /\ store["chatsession"][i]._id < store["message"][2]._id
          /\ store["message"][1].text = "hello"
          /\ store["message"][1].contact_id = store["chatsession"][i].contact_id


UserEntries(history) ==
    {i \in DOMAIN history : "role" \in DOMAIN history[i] /\ history[i].role = "user"}

\* the content of the entry with role "user" nearest to the end, if any
MatchedText(history) ==
    IF UserEntries(history) = {} THEN <<>>
    ELSE LET last == CHOOSE i \in UserEntries(history) :
                        \A j \in UserEntries(history) : j <= i
         IN  IF "content" \in DOMAIN history[last] THEN history[last].content ELSE <<>>

\* `word` occurs in `text` whatever the case of the letters of `text`
Mentions(text, word) ==
    \E start \in 0..(Len(text) - Len(word)) :
        \A k \in 1..Len(word) : LowerChar(text[start + k]) = word[k]

\* C7: ai_suggest takes the last entry with role "user"; if its content has
\* "price" or "cost" (any case) the pricing suggestion is returned, also when
\* it has "trial" or "demo" too; otherwise if it has "trial" or "demo" the
\* demo suggestion; otherwise, or with no "user" entry, the generic one.
C7_SuggestionPriority ==
    (response.op = "ai_suggest" /\ response.status = 200) =>
        LET text == MatchedText(response.req.history)
        IN  response.body.suggestion =
                IF \/ Mentions(text, <<"p", "r", "i", "c", "e">>)
                   \/ Mentions(text, <<"c", "o", "s", "t">>)
                THEN "Our pricing starts at $49/month. Would you like a quick demo?"
                ELSE IF \/ Mentions(text, <<"t", "r", "i", "a", "l">>)
                        \/ Mentions(text, <<"d", "e", "m", "o">>)
                     THEN "Happy to set up a demo. What time works best for you?"
                     ELSE "Thanks for reaching out! Could you please share more details?"

\* the last user entry mentions both a trial and a price, an assistant entry
\* follows it, and the pricing suggestion is returned
C7_Witness ==
    /\ response.op = "ai_suggest"
    /\ response.status = 200
    /\ Len(response.req.history) = 2
    /\ response.req.history[1] =
          [role |-> "user",
           content |-> <<"t", "r", "i", "a", "l", " ", "p", "r", "i", "c", "e">>]
    /\ response.req.history[2] =
          [role |-> "assistant", content |-> <<"h", "e", "l", "l", "o">>]
    /\ response.body.suggestion = PricingSuggestion


\* the requests that completed successfully for contact c
Sent(c) ==
    {s \in Slots : /\ inflight[s].pc = "done"
                   /\ inflight[s].status = 200
                   /\ inflight[s].body.contact_id = c}

\* the place in the message collection of the document request s inserted
MessageOf(s) ==
    {i \in DOMAIN store["message"] :
        /\ ObjectIdStr(store["message"][i]._id) = inflight[s].new_id
        /\ store["message"][i].contact_id = inflight[s].body.contact_id
        /\ store["message"][i].text = inflight[s].body.text}

====
